---- MODULE Spec2Model ----
(***************************************************************************)
(* Dijkstra's shortest paths over an undirected weighted graph, as         *)
(* implemented twice in this repository:                                   *)
(*   src/dijkstra.py             Grafo, dijkstra, reconstruir_camino       *)
(*   src/dijkstra_hospitales.py  RedHospitalaria, dijkstra,                *)
(*                               reconstruir_ruta, menu_calcular           *)
(* Vertex labels are strings in the code; here they are the integers       *)
(* 1..NumNodos, whose order stands for the lexicographic order of the      *)
(* labels (the only thing the code uses of a label besides equality).      *)
(***************************************************************************)
EXTENDS Integers, Sequences, FiniteSets, TLC

\* ---------------------------------------------------------------- bounds
NumNodos == 3
MaxPeso == 1
MaxAristas == 3

Nombres == 1..NumNodos
Pesos == 0..MaxPeso
\* The (tipo, info) pairs agregar_lugar is called with.
Lugares == {<<"hospital", "urgencias">>, <<"colonia", "">>}

\* Python's None (no vertex label is 0).
NONE == 0
\* math.inf: compares greater than every finite distance; no path of a graph
\* within the bounds weighs more than MaxPeso * MaxAristas.
INF == MaxPeso * MaxAristas + MaxPeso + 1

VARIABLES
    variante,          \* "base": src/dijkstra.py, "hosp": src/dijkstra_hospitales.py
    vertices,          \* Grafo.vertices
    aristas,           \* Grafo.aristas: vertex -> list of <<neighbour, weight>>
    nodos,             \* RedHospitalaria.nodos: name -> [tipo, info]
    adyacencia,        \* RedHospitalaria.adyacencia
    ultima,            \* the last graph operation called, with its arguments
    pc,                \* "construir", "bucle", "retorno", "fin", "error"
    origen,            \* the source of the run
    distancias,        \* distancias / dist
    predecesores,      \* predecesores / prev
    visitados,         \* visitados / visitado
    cola_prioridad,    \* cola_prioridad / heap, kept in heappop order
    distancia_actual,  \* distancia_actual / d_actual of the last pop
    nodo_actual,       \* nodo_actual / u of the last pop
    caminos,           \* the paths rebuilt after the run
    ranking,           \* hospitales_alcanzables after its sort
    empujadas          \* how many entries the run has put in its heap so far

vars == <<variante, vertices, aristas, nodos, adyacencia, ultima, pc, origen,
          distancias, predecesores, visitados, cola_prioridad,
          distancia_actual, nodo_actual, caminos, ranking, empujadas>>

grafoVars == <<vertices, aristas, nodos, adyacencia>>
runVars == <<origen, distancias, predecesores, visitados, cola_prioridad,
             distancia_actual, nodo_actual, empujadas>>

\* ------------------------------------------------------------- dictionaries
\* A dict is a function; {} is the function with the empty domain.
DictVacio == [x \in {} |-> 0]

DictPut(d, k, v) == [x \in (DOMAIN d) \cup {k} |-> IF x = k THEN v ELSE d[x]]

\* ------------------------------------------------------------------- Grafo
\* Grafo.agregar_vertice: the set add, and the list only when there is none.
agregar_vertice(g, vertice) ==
    [vertices |-> g.vertices \cup {vertice},
     aristas |-> IF vertice \notin DOMAIN g.aristas
                   THEN DictPut(g.aristas, vertice, <<>>)
                   ELSE g.aristas]

\* Grafo.agregar_arista whose second append was forgotten (a directed edge).
agregar_arista_dirigida(g, o, d, peso) ==
    LET g1 == agregar_vertice(g, o)
        g2 == agregar_vertice(g1, d)
    IN  [g2 EXCEPT !.aristas[o] = Append(@, <<d, peso>>)]

\* Grafo.agregar_arista: both endpoints, then the two appends in order.
agregar_arista(g, o, d, peso) ==
    LET g1 == agregar_vertice(g, o)
        g2 == agregar_vertice(g1, d)
        a1 == [g2.aristas EXCEPT ![o] = Append(@, <<d, peso>>)]
        a2 == [a1 EXCEPT ![d] = Append(@, <<o, peso>>)]
    IN  [g2 EXCEPT !.aristas = a2]

\* dict.get(vertice, []) of Grafo.obtener_vecinos / RedHospitalaria.vecinos.
obtener_vecinos(ady, vertice) ==
    IF vertice \in DOMAIN ady THEN ady[vertice] ELSE <<>>

\* The dict after a lookup that files an empty list under a key it misses
\* (dict.setdefault, a defaultdict).
dict_tras_setdefault(ady, vertice) ==
    IF vertice \in DOMAIN ady THEN ady ELSE DictPut(ady, vertice, <<>>)

\* The dict after obtener_vecinos / vecinos: dict.get gives its default for
\* a key it misses and stores nothing.
dict_tras_get(ady, vertice) == ady

\* --------------------------------------------------------- RedHospitalaria
\* RedHospitalaria.agregar_lugar, had it written tipo and info also for a
\* name already there (and kept that name's list).
agregar_lugar_sobrescribe(r, nombre, tipo, info) ==
    [nodos |-> DictPut(r.nodos, nombre, [tipo |-> tipo, info |-> info]),
     adyacencia |-> IF nombre \in DOMAIN r.adyacencia
                      THEN r.adyacencia
                      ELSE DictPut(r.adyacencia, nombre, <<>>)]

\* RedHospitalaria.agregar_lugar: nothing at all for a name already there.
agregar_lugar(r, nombre, tipo, info) ==
    IF nombre \notin DOMAIN r.nodos
      THEN [nodos |-> DictPut(r.nodos, nombre, [tipo |-> tipo, info |-> info]),
            adyacencia |-> DictPut(r.adyacencia, nombre, <<>>)]
      ELSE r

\* any(v == x for v, _ in lista)
TieneVecino(lista, x) == \E i \in 1..Len(lista) : lista[i][1] = x

\* RedHospitalaria.agregar_ruta without its duplicate test.
agregar_ruta_sin_filtro(r, o, d, minutos) ==
    LET r1 == agregar_lugar(r, o, "colonia", "")
        r2 == agregar_lugar(r1, d, "colonia", "")
        a1 == [r2.adyacencia EXCEPT ![o] = Append(@, <<d, minutos>>)]
        a2 == [a1 EXCEPT ![d] = Append(@, <<o, minutos>>)]
    IN  [r2 EXCEPT !.adyacencia = a2]

\* RedHospitalaria.agregar_ruta, had it tested only the list of origen.
agregar_ruta_un_filtro(r, o, d, minutos) ==
    LET r1 == agregar_lugar(r, o, "colonia", "")
        r2 == agregar_lugar(r1, d, "colonia", "")
        a1 == IF ~TieneVecino(r2.adyacencia[o], d)
                THEN [r2.adyacencia EXCEPT ![o] = Append(@, <<d, minutos>>)]
                ELSE r2.adyacencia
        a2 == [a1 EXCEPT ![d] = Append(@, <<o, minutos>>)]
    IN  [r2 EXCEPT !.adyacencia = a2]

\* RedHospitalaria.agregar_ruta: the endpoints with the default tipo and info,
\* then each append only when that list names the other endpoint nowhere.
agregar_ruta(r, o, d, minutos) ==
    LET r1 == agregar_lugar(r, o, "colonia", "")
        r2 == agregar_lugar(r1, d, "colonia", "")
        a1 == IF ~TieneVecino(r2.adyacencia[o], d)
                THEN [r2.adyacencia EXCEPT ![o] = Append(@, <<d, minutos>>)]
                ELSE r2.adyacencia
        a2 == IF ~TieneVecino(a1[d], o)
                THEN [a1 EXCEPT ![d] = Append(@, <<o, minutos>>)]
                ELSE a1
    IN  [r2 EXCEPT !.adyacencia = a2]

\* RedHospitalaria.hospitales, as a set (the list is in dict order).
hospitales(r) == {n \in DOMAIN r.nodos : r.nodos[n].tipo = "hospital"}

\* RedHospitalaria.colonias
colonias(r) == {n \in DOMAIN r.nodos : r.nodos[n].tipo # "hospital"}

\* ------------------------------------------------------------------- heapq
\* Tuple order of Python on (distancia, nodo) entries.
EntradaMenor(e1, e2) == e1[1] < e2[1] \/ (e1[1] = e2[1] /\ e1[2] < e2[2])

\* A push onto a plain queue: the entries leave in the order they came.
heappush_al_final(cola, e) == Append(cola, e)

\* A push that orders by distance alone: equal distances leave in push order.
heappush_fifo(cola, e) ==
    LET k == Cardinality({i \in 1..Len(cola) : cola[i][1] <= e[1]})
    IN  SubSeq(cola, 1, k) \o <<e>> \o SubSeq(cola, k + 1, Len(cola))

\* heapq.heappush. The heap is kept as the sequence in which heappop would
\* empty it: heappop returns the least entry in tuple order, and entries that
\* compare equal are the same tuple.
heappush(cola, e) ==
    LET k == Cardinality({i \in 1..Len(cola) : ~EntradaMenor(e, cola[i])})
    IN  SubSeq(cola, 1, k) \o <<e>> \o SubSeq(cola, k + 1, Len(cola))

\* heapq.heappop: the least entry, and the heap without it.
heappop(cola) == [entrada |-> Head(cola), cola |-> Tail(cola)]

\* ---------------------------------------------------------------- dijkstra
\* The locals of dijkstra, had every distance started at 0.
inicial_sin_infinito(claves, o) ==
    [distancias |-> DictPut([v \in claves |-> 0], o, 0),
     predecesores |-> [v \in claves |-> NONE],
     visitados |-> {},
     cola |-> <<<<0, o>>>>,
     distancia_actual |-> 0,
     nodo_actual |-> NONE]

\* The locals of dijkstra as it enters its while loop.
inicial(claves, o) ==
    [distancias |-> DictPut([v \in claves |-> INF], o, 0),
     predecesores |-> [v \in claves |-> NONE],
     visitados |-> {},
     cola |-> <<<<0, o>>>>,
     distancia_actual |-> 0,
     nodo_actual |-> NONE]

\* The body of the for loop, had it updated only neighbours never reached
\* before (distance still infinity).
relajar_solo_nuevos(st, u, d, vecino, peso) ==
    IF vecino \in st.visitados \/ st.distancias[vecino] # INF
      THEN st
      ELSE [st EXCEPT !.distancias[vecino] = d + peso,
                      !.predecesores[vecino] = u,
                      !.cola = heappush(@, <<d + peso, vecino>>)]

\* The body of the for loop, had it kept the first predecessor of a neighbour
\* when a shorter way to it is found.
relajar_sin_predecesor(st, u, d, vecino, peso) ==
    IF vecino \in st.visitados \/ ~(d + peso < st.distancias[vecino])
      THEN st
      ELSE [st EXCEPT !.distancias[vecino] = d + peso,
                      !.predecesores[vecino] =
                          IF @ = NONE THEN u ELSE @,
                      !.cola = heappush(@, <<d + peso, vecino>>)]

\* The body of the for loop, had it skipped no visited neighbour and taken a
\* distance that is not longer for an improvement.
relajar_laxo(st, u, d, vecino, peso) ==
    IF d + peso <= st.distancias[vecino]
      THEN [st EXCEPT !.distancias[vecino] = d + peso,
                      !.predecesores[vecino] = u,
                      !.cola = heappush(@, <<d + peso, vecino>>)]
      ELSE st

\* The body of the for loop, had it taken a distance that is not longer for
\* an improvement (<= for <).
relajar_no_estricto(st, u, d, vecino, peso) ==
    IF vecino \in st.visitados \/ ~(d + peso <= st.distancias[vecino])
      THEN st
      ELSE [st EXCEPT !.distancias[vecino] = d + peso,
                      !.predecesores[vecino] = u,
                      !.cola = heappush(@, <<d + peso, vecino>>)]

\* The body of the for loop for one (vecino, peso) of nodo_actual.
relajar(st, u, d, vecino, peso) ==
    IF vecino \in st.visitados
      THEN st
      ELSE LET nueva_distancia == d + peso
           IN  IF nueva_distancia < st.distancias[vecino]
                 THEN [st EXCEPT !.distancias[vecino] = nueva_distancia,
                                 !.predecesores[vecino] = u,
                                 !.cola = heappush(@, <<nueva_distancia, vecino>>)]
                 ELSE st

\* The for loop over the neighbours of nodo_actual, in list order.
RECURSIVE explorar(_, _, _, _, _)
explorar(st, lista, i, u, d) ==
    IF i > Len(lista)
      THEN st
      ELSE explorar(relajar(st, u, d, lista[i][1], lista[i][2]), lista, i + 1, u, d)

\* One pass of the while loop, had it not marked the popped vertex visited.
iteracion_sin_marcar(st, ady) ==
    LET p == heappop(st.cola)
        d == p.entrada[1]
        u == p.entrada[2]
        st1 == [st EXCEPT !.cola = p.cola, !.distancia_actual = d, !.nodo_actual = u]
    IN  IF u \in st.visitados
          THEN st1
          ELSE explorar(st1, obtener_vecinos(ady, u), 1, u, d)

\* One pass of the while loop: the pop, the visited test, the for loop.
iteracion(st, ady) ==
    LET p == heappop(st.cola)
        d == p.entrada[1]
        u == p.entrada[2]
        st1 == [st EXCEPT !.cola = p.cola, !.distancia_actual = d, !.nodo_actual = u]
    IN  IF u \in st.visitados
          THEN st1
          ELSE explorar([st1 EXCEPT !.visitados = @ \cup {u}],
                        obtener_vecinos(ady, u), 1, u, d)

\* The while loop, to its end.
RECURSIVE ejecutar(_, _)
ejecutar(st, ady) == IF st.cola = <<>> THEN st ELSE ejecutar(iteracion(st, ady), ady)

\* dijkstra(grafo, origen), as the function of its arguments.
dijkstra(ady, claves, o) == ejecutar(inicial(claves, o), ady)

\* ------------------------------------------------------------ reconstruir
\* The while loop of reconstruir_camino / reconstruir_ruta: the chain from
\* destino back along the predecessors. A label that is no key raises
\* KeyError; a chain longer than the dict has keys repeats a label and the
\* loop never ends.
RECURSIVE caminar(_, _, _)
caminar(pred, nodo, camino) ==
    IF nodo = NONE THEN [fin |-> "ok", camino |-> camino]
    ELSE IF nodo \notin DOMAIN pred THEN [fin |-> "KeyError", camino |-> Append(camino, nodo)]
    ELSE IF Len(camino) > Cardinality(DOMAIN pred) THEN [fin |-> "diverge", camino |-> camino]
    ELSE caminar(pred, pred[nodo], Append(camino, nodo))

\* list.reverse()
Invertir(s) == [i \in 1..Len(s) |-> s[Len(s) + 1 - i]]

\* reconstruir_camino without its test of the first element.
reconstruir_camino_sin_verificar(pred, o, destino) ==
    LET c == caminar(pred, destino, <<>>)
    IN  IF c.fin # "ok" THEN [fin |-> c.fin, camino |-> <<>>]
        ELSE [fin |-> "ok", camino |-> Invertir(c.camino)]

\* reconstruir_camino (src/dijkstra.py): camino[0] of an empty list raises.
reconstruir_camino(pred, o, destino) ==
    LET c == caminar(pred, destino, <<>>)
        camino == Invertir(c.camino)
    IN  IF c.fin # "ok" THEN [fin |-> c.fin, camino |-> <<>>]
        ELSE IF camino = <<>> THEN [fin |-> "IndexError", camino |-> <<>>]
        ELSE IF camino[1] # o THEN [fin |-> "ok", camino |-> <<>>]
        ELSE [fin |-> "ok", camino |-> camino]

\* reconstruir_ruta (src/dijkstra_hospitales.py): tests for the empty list.
reconstruir_ruta(pred, o, destino) ==
    LET c == caminar(pred, destino, <<>>)
        ruta == Invertir(c.camino)
    IN  IF c.fin # "ok" THEN [fin |-> c.fin, camino |-> <<>>]
        ELSE IF ruta = <<>> \/ ruta[1] # o THEN [fin |-> "ok", camino |-> <<>>]
        ELSE [fin |-> "ok", camino |-> ruta]

\* ---------------------------------------------------------------- ranking
\* list.sort() on (distancia, hospital) tuples, as an insertion sort.
insertar(s, e) ==
    LET k == Cardinality({i \in 1..Len(s) : ~EntradaMenor(e, s[i])})
    IN  SubSeq(s, 1, k) \o <<e>> \o SubSeq(s, k + 1, Len(s))

\* The list left as it was built, had the sort been forgotten.
ordenar_sin_ordenar(s) == s

RECURSIVE ordenar(_)
ordenar(s) ==
    IF s = <<>> THEN <<>>
    ELSE insertar(ordenar(SubSeq(s, 1, Len(s) - 1)), s[Len(s)])

\* [(dist[h], h) for h in red.hospitales() if dist[h] < math.inf], for the
\* hospitals in the order lista gives them.
RECURSIVE alcanzables(_, _)
alcanzables(dist, lista) ==
    IF lista = <<>> THEN <<>>
    ELSE LET h == Head(lista)
             resto == alcanzables(dist, Tail(lista))
         IN  IF dist[h] < INF THEN <<<<dist[h], h>>>> \o resto ELSE resto

\* The lists in which a dict can hold a set of keys (its insertion orders).
Ordenes(S) ==
    {f \in [1..Cardinality(S) -> S] : \A i, j \in 1..Cardinality(S) : i # j => f[i] # f[j]}

\* ------------------------------------------------------------- the program
Grafo == [vertices |-> vertices, aristas |-> aristas]
Red == [nodos |-> nodos, adyacencia |-> adyacencia]

\* What dijkstra reads of the graph: its keys and its adjacency.
Claves == IF variante = "base" THEN vertices ELSE DOMAIN nodos
Ady == IF variante = "base" THEN aristas ELSE adyacencia

\* sum(len(lista)) over the adjacency lists
RECURSIVE Entradas(_)
Entradas(ady) ==
    IF DOMAIN ady = {} THEN 0
    ELSE LET k == CHOOSE x \in DOMAIN ady : TRUE
         IN  Len(ady[k]) + Entradas([x \in DOMAIN ady \ {k} |-> ady[x]])

Operacion(op, a, b, peso) == [op |-> op, a |-> a, b |-> b, peso |-> peso]

Estado ==
    [distancias |-> distancias, predecesores |-> predecesores,
     visitados |-> visitados, cola |-> cola_prioridad,
     distancia_actual |-> distancia_actual, nodo_actual |-> nodo_actual]

Asignar(st) ==
    /\ distancias' = st.distancias
    /\ predecesores' = st.predecesores
    /\ visitados' = st.visitados
    /\ cola_prioridad' = st.cola
    /\ distancia_actual' = st.distancia_actual
    /\ nodo_actual' = st.nodo_actual

Init ==
    /\ variante \in {"base", "hosp"}
    /\ vertices = {}
    /\ aristas = DictVacio
    /\ nodos = DictVacio
    /\ adyacencia = DictVacio
    /\ ultima = Operacion("ninguna", NONE, NONE, 0)
    /\ pc = "construir"
    /\ origen = NONE
    /\ distancias = DictVacio
    /\ predecesores = DictVacio
    /\ visitados = {}
    /\ cola_prioridad = <<>>
    /\ distancia_actual = 0
    /\ nodo_actual = NONE
    /\ caminos = DictVacio
    /\ ranking = <<>>
    /\ empujadas = 0

\* g.agregar_vertice(v)
AgregarVertice(v) ==
    /\ pc = "construir" /\ variante = "base"
    /\ LET g == agregar_vertice(Grafo, v)
       IN  vertices' = g.vertices /\ aristas' = g.aristas
    /\ ultima' = Operacion("agregar_vertice", v, v, 0)
    /\ UNCHANGED <<variante, nodos, adyacencia, pc, runVars, caminos, ranking>>

\* g.agregar_arista(a, b, w)
AgregarArista(a, b, w) ==
    /\ pc = "construir" /\ variante = "base"
    /\ Entradas(aristas) + 2 <= 2 * MaxAristas
    /\ LET g == agregar_arista(Grafo, a, b, w)
       IN  vertices' = g.vertices /\ aristas' = g.aristas
    /\ ultima' = Operacion("agregar_arista", a, b, w)
    /\ UNCHANGED <<variante, nodos, adyacencia, pc, runVars, caminos, ranking>>

\* red.agregar_lugar(n, tipo, info)
AgregarLugar(n, tipo, info) ==
    /\ pc = "construir" /\ variante = "hosp"
    /\ LET r == agregar_lugar(Red, n, tipo, info)
       IN  nodos' = r.nodos /\ adyacencia' = r.adyacencia
    /\ ultima' = Operacion("agregar_lugar", n, n, 0)
    /\ UNCHANGED <<variante, vertices, aristas, pc, runVars, caminos, ranking>>

\* red.agregar_ruta(a, b, m)
AgregarRuta(a, b, m) ==
    /\ pc = "construir" /\ variante = "hosp"
    /\ \/ Entradas(adyacencia) + 2 <= 2 * MaxAristas
       \/ a \in DOMAIN adyacencia /\ TieneVecino(adyacencia[a], b)
    /\ LET r == agregar_ruta(Red, a, b, m)
       IN  nodos' = r.nodos /\ adyacencia' = r.adyacencia
    /\ ultima' = Operacion("agregar_ruta", a, b, m)
    /\ UNCHANGED <<variante, vertices, aristas, pc, runVars, caminos, ranking>>

\* dijkstra(grafo, o) up to its while loop, for a source of the graph.
Iniciar(o) ==
    /\ pc = "construir"
    /\ o \in Claves
    /\ origen' = o
    /\ Asignar(inicial(Claves, o))
    /\ empujadas' = 1
    /\ pc' = "bucle"
    /\ ultima' = Operacion("dijkstra", o, o, 0)
    /\ UNCHANGED <<variante, grafoVars, caminos, ranking>>

\* A pass of the while loop that pops a vertex not yet visited. The hospital
\* variant reads red.nodos[u]["tipo"] of the vertex, which is there to read.
Visitar ==
    /\ pc = "bucle"
    /\ cola_prioridad # <<>>
    /\ Head(cola_prioridad)[2] \notin visitados
    /\ variante = "hosp" => Head(cola_prioridad)[2] \in DOMAIN nodos
    /\ Asignar(iteracion(Estado, Ady))
    /\ empujadas' = empujadas + Len(cola_prioridad') - Len(Tail(cola_prioridad))
    /\ pc' = IF cola_prioridad' = <<>> THEN "retorno" ELSE "bucle"
    /\ aristas' = IF variante = "base"
                    THEN dict_tras_get(aristas, Head(cola_prioridad)[2])
                    ELSE aristas
    /\ adyacencia' = IF variante = "hosp"
                       THEN dict_tras_get(adyacencia, Head(cola_prioridad)[2])
                       ELSE adyacencia
    /\ UNCHANGED <<variante, vertices, nodos, ultima, origen, caminos, ranking>>

\* A pass of the while loop that pops a vertex already visited.
Descartar ==
    /\ pc = "bucle"
    /\ cola_prioridad # <<>>
    /\ Head(cola_prioridad)[2] \in visitados
    /\ Asignar(iteracion(Estado, Ady))
    /\ empujadas' = empujadas + Len(cola_prioridad') - Len(Tail(cola_prioridad))
    /\ pc' = IF cola_prioridad' = <<>> THEN "retorno" ELSE "bucle"
    /\ UNCHANGED <<variante, grafoVars, ultima, origen, caminos, ranking>>

\* mostrar_resultados: the path to every vertex but the source.
MostrarResultados ==
    /\ pc = "retorno" /\ variante = "base"
    /\ LET r == [v \in vertices \ {origen} |-> reconstruir_camino(predecesores, origen, v)]
       IN  /\ caminos' = [v \in DOMAIN r |-> r[v].camino]
           /\ pc' = IF \A v \in DOMAIN r : r[v].fin = "ok" THEN "fin" ELSE "error"
    /\ UNCHANGED <<variante, grafoVars, ultima, runVars, ranking>>

\* menu_calcular after its call of dijkstra: the reachable hospitals, sorted,
\* and the route to each of them.
MenuCalcular ==
    /\ pc = "retorno" /\ variante = "hosp"
    /\ \E lista \in Ordenes(hospitales(Red)) :
         LET hs == ordenar(alcanzables(distancias, lista))
             r == [i \in 1..Len(hs) |-> reconstruir_ruta(predecesores, origen, hs[i][2])]
         IN  /\ ranking' = hs
             /\ caminos' = [h \in {hs[i][2] : i \in 1..Len(hs)} |->
                              reconstruir_ruta(predecesores, origen, h).camino]
             /\ pc' = IF \A i \in 1..Len(hs) : r[i].fin = "ok" THEN "fin" ELSE "error"
    /\ UNCHANGED <<variante, grafoVars, ultima, runVars>>

Next ==
    \/ \E v \in Nombres : AgregarVertice(v)
    \/ \E a, b \in Nombres, w \in Pesos : AgregarArista(a, b, w)
    \/ \E n \in Nombres, l \in Lugares : AgregarLugar(n, l[1], l[2])
    \/ \E a, b \in Nombres, m \in Pesos : AgregarRuta(a, b, m)
    \/ \E o \in Nombres : Iniciar(o)
    \/ Visitar
    \/ Descartar
    \/ MostrarResultados
    \/ MenuCalcular

Spec == Init /\ [][Next]_vars

\* ------------------------------------------------ paths, by enumeration
Contiene(lista, e) == \E i \in 1..Len(lista) : lista[i] = e

Min(S) == CHOOSE x \in S : \A y \in S : x <= y

\* The weights of the edges that join u to v.
PesosEntre(ady, u, v) ==
    {ady[u][i][2] : i \in {j \in 1..Len(ady[u]) : ady[u][j][1] = v}}

Adyacentes(ady, u, v) == u \in DOMAIN ady /\ PesosEntre(ady, u, v) # {}

\* The sequences of distinct vertices whose consecutive elements are joined
\* by an edge: every simple path of the graph.
CaminosSimples(ady, claves) ==
    UNION {{p \in [1..k -> claves] :
              /\ \A i, j \in 1..k : i # j => p[i] # p[j]
              /\ \A i \in 1..(k - 1) : Adyacentes(ady, p[i], p[i + 1])}
           : k \in 1..Cardinality(claves)}

\* The weight of a path, each step by the lightest edge that joins its ends.
RECURSIVE PesoCamino(_, _)
PesoCamino(ady, p) ==
    IF Len(p) <= 1 THEN 0
    ELSE Min(PesosEntre(ady, p[1], p[2])) + PesoCamino(ady, Tail(p))

\* Of the simple paths cs, those from s to v.
CaminosDe(cs, s, v) == {p \in cs : p[1] = s /\ p[Len(p)] = v}

Alcanzable(cs, s, v) == CaminosDe(cs, s, v) # {}

DistanciaMinima(ady, cs, s, v) ==
    Min({PesoCamino(ady, p) : p \in CaminosDe(cs, s, v)})

\* The simple paths of the graph of the program.
Simples == CaminosSimples(Ady, Claves)

\* dijkstra has returned.
Terminado == pc \in {"retorno", "fin"}

\* reconstruir_camino or reconstruir_ruta, as the variant has it.
Reconstruir(pred, o, d) ==
    IF variante = "base" THEN reconstruir_camino(pred, o, d)
    ELSE reconstruir_ruta(pred, o, d)

\* ------------------------------------------------------------------ claims
\* C1: when dijkstra returns, in either variant, the distance of every vertex
\* reachable from the source is the least weight of a path from the source to
\* it, and the distance of the source is 0.
C1_DistanciasMinimas ==
    Terminado =>
        LET cs == Simples
        IN  /\ distancias[origen] = 0
            /\ \A v \in Claves :
                 Alcanzable(cs, origen, v) =>
                    distancias[v] = DistanciaMinima(Ady, cs, origen, v)

\* A run of the hospital variant has returned, and some neighbour of the
\* source is nearer by a detour than by the edge that joins them.
C1_Witness ==
    /\ pc = "retorno" /\ variante = "hosp"
    /\ \E v \in Claves \ {origen} :
         /\ Adyacentes(Ady, origen, v)
         /\ distancias[v] < Min(PesosEntre(Ady, origen, v))

\* C2: for every vertex v other than the source that is reachable from it,
\* the path rebuilt from the returned predecessors starts at the source, ends
\* at v, steps only along edges of the graph, and weighs distancias[v] (each
\* step by the lightest edge that joins its ends).
C2_CaminoValido ==
    Terminado =>
        LET cs == Simples IN
        \A v \in Claves \ {origen} :
            Alcanzable(cs, origen, v) =>
                LET r == Reconstruir(predecesores, origen, v)
                    c == r.camino
                IN  /\ r.fin = "ok"
                    /\ c # <<>>
                    /\ c[1] = origen
                    /\ c[Len(c)] = v
                    /\ \A i \in 1..(Len(c) - 1) : Adyacentes(Ady, c[i], c[i + 1])
                    /\ PesoCamino(Ady, c) = distancias[v]
                    /\ (pc = "fin" /\ v \in DOMAIN caminos) => caminos[v] = c

\* The results of a run are shown, and one of the paths passes through a
\* third vertex and weighs more than 0.
C2_Witness ==
    /\ pc = "fin"
    /\ \E v \in DOMAIN caminos : Len(caminos[v]) = 3 /\ distancias[v] > 0

\* C3: every vertex that no path joins to the source has distance infinity
\* and no predecessor when dijkstra returns, and its rebuilt path is empty.
C3_Inalcanzables ==
    Terminado =>
        LET cs == Simples IN
        \A v \in Claves :
            ~Alcanzable(cs, origen, v) =>
                /\ distancias[v] = INF
                /\ predecesores[v] = NONE
                /\ Reconstruir(predecesores, origen, v) = [fin |-> "ok", camino |-> <<>>]
                /\ (pc = "fin" /\ v \in DOMAIN caminos) => caminos[v] = <<>>

\* The results of a run are shown for a graph of two components: a vertex
\* the source reaches, and one it does not, which has an edge of its own.
C3_Witness ==
    /\ pc = "fin" /\ variante = "base"
    /\ \E v, u \in Claves \ {origen} :
         /\ v # u
         /\ Alcanzable(Simples, origen, v)
         /\ ~Alcanzable(Simples, origen, u)
         /\ Ady[u] # <<>>
         /\ caminos[u] = <<>>

\* The last call was agregar_arista or agregar_ruta.
UltimaEsArista == ultima.op \in {"agregar_arista", "agregar_ruta"}

\* b is named in the list of a (the hospital variant's test for a duplicate).
YaAdyacentes(ady, a, b) == a \in DOMAIN ady /\ TieneVecino(ady[a], b)

\* C4 as stated: in both variants, right after addEdge(a, b, w) the list of a
\* holds (b, w) and the list of b holds (a, w).
C4_Original ==
    UltimaEsArista =>
        /\ Contiene(Ady[ultima.a], <<ultima.b, ultima.peso>>)
        /\ Contiene(Ady[ultima.b], <<ultima.a, ultima.peso>>)

\* C4 as amended: right after agregar_arista(a, b, w) of the base variant the
\* list of a holds (b, w) and the list of b holds (a, w); the same holds after
\* agregar_ruta(a, b, w) of the hospital variant when a and b were not
\* adjacent before the call, and when they were the call leaves nodes and
\* lists as they were (the weight stored first stays).
C4_AristaRegistrada ==
    [][(UltimaEsArista' /\ pc' = "construir") =>
          LET a == ultima'.a
              b == ultima'.b
              w == ultima'.peso
          IN  IF variante = "hosp" /\ YaAdyacentes(adyacencia, a, b)
                THEN /\ adyacencia' = adyacencia
                     /\ nodos' = nodos
                     /\ TieneVecino(adyacencia'[a], b)
                     /\ TieneVecino(adyacencia'[b], a)
                ELSE /\ Contiene(Ady'[a], <<b, w>>)
                     /\ Contiene(Ady'[b], <<a, w>>)]_vars

\* agregar_ruta has just joined two distinct places of a network that already
\* had a route, and both lists hold the new route with its weight.
C4_Witness ==
    /\ variante = "hosp" /\ ultima.op = "agregar_ruta" /\ ultima.a # ultima.b
    /\ Len(adyacencia[ultima.a]) >= 2
    /\ adyacencia[ultima.a][Len(adyacencia[ultima.a])] = <<ultima.b, ultima.peso>>
    /\ adyacencia[ultima.b][Len(adyacencia[ultima.b])] = <<ultima.a, ultima.peso>>

\* C5: in both variants, after any calls of addVertex / addEdge, every entry
\* (v, w) of the list of u has an entry (u, w) in the list of v, and every
\* vertex named in a list is in the vertex set and has a list of its own.
C5_Simetria ==
    /\ \A u \in DOMAIN Ady : \A i \in 1..Len(Ady[u]) :
         LET v == Ady[u][i][1]
             w == Ady[u][i][2]
         IN  /\ v \in Claves
             /\ v \in DOMAIN Ady
             /\ Contiene(Ady[v], <<u, w>>)
    /\ DOMAIN Ady = Claves

\* A base graph in which one pair was inserted with two different weights
\* and some vertex has a self-loop.
C5_Witness ==
    /\ variante = "base" /\ pc = "construir"
    /\ \E u, v \in vertices : u # v /\ Cardinality(PesosEntre(aristas, u, v)) = 2
    /\ \E x \in vertices : Adyacentes(aristas, x, x)

\* The step is a call of agregar_arista / agregar_ruta for a pair that was
\* adjacent before it.
LlamadaDuplicada ==
    /\ UltimaEsArista' /\ pc' = "construir"
    /\ YaAdyacentes(Ady, ultima'.a, ultima'.b)

\* C6 as stated: for a pair already adjacent, agregar_ruta of the hospital
\* variant changes nothing of the network, and agregar_arista of the base
\* variant makes the list of a one entry longer and the list of b one entry
\* longer.
C6_Original ==
    [][LlamadaDuplicada =>
          LET a == ultima'.a
              b == ultima'.b
          IN  IF variante = "hosp"
                THEN nodos' = nodos /\ adyacencia' = adyacencia
                ELSE /\ Len(aristas'[a]) = Len(aristas[a]) + 1
                     /\ Len(aristas'[b]) = Len(aristas[b]) + 1]_vars

\* C6 as amended: the hospital variant as stated; in the base variant the
\* call appends (b, m) to the list of a and (a, m) to the list of b, which for
\* a # b makes each of the two lists one entry longer and for a = b makes the
\* one list of a two entries longer; no other list and no vertex changes.
C6_Duplicado ==
    [][LlamadaDuplicada =>
          LET a == ultima'.a
              b == ultima'.b
              m == ultima'.peso
          IN  IF variante = "hosp"
                THEN nodos' = nodos /\ adyacencia' = adyacencia
                ELSE /\ vertices' = vertices
                     /\ DOMAIN aristas' = DOMAIN aristas
                     /\ \A x \in DOMAIN aristas \ {a, b} : aristas'[x] = aristas[x]
                     /\ IF a # b
                          THEN /\ aristas'[a] = Append(aristas[a], <<b, m>>)
                               /\ aristas'[b] = Append(aristas[b], <<a, m>>)
                          ELSE aristas'[a] = aristas[a] \o <<<<a, m>>, <<a, m>>>>]_vars

\* agregar_ruta was just called for two distinct places, one of them a
\* hospital, that a route of another weight joins already.
C6_Witness ==
    /\ variante = "hosp" /\ ultima.op = "agregar_ruta" /\ ultima.a # ultima.b
    /\ nodos[ultima.a].tipo = "hospital"
    /\ PesosEntre(adyacencia, ultima.a, ultima.b) = {1 - ultima.peso}

\* The neighbours a list names, each once, in the order of first mention.
RECURSIVE PrimerasApariciones(_, _)
PrimerasApariciones(lista, vistos) ==
    IF lista = <<>> THEN <<>>
    ELSE IF Head(lista)[1] \in vistos THEN PrimerasApariciones(Tail(lista), vistos)
    ELSE <<Head(lista)[1]>> \o
         PrimerasApariciones(Tail(lista), vistos \cup {Head(lista)[1]})

\* The graph that keeps, of the edges that join a pair, one of least weight.
Reducido(ady) ==
    [u \in DOMAIN ady |->
        LET vs == PrimerasApariciones(ady[u], {})
        IN  [k \in 1..Len(vs) |-> <<vs[k], Min(PesosEntre(ady, u, vs[k]))>>]]

\* C7: in the base variant the distances dijkstra returns on a graph with
\* pairs inserted several times are the distances it returns on the graph
\* that keeps only the lightest edge of each pair.
C7_Duplicados ==
    (Terminado /\ variante = "base") =>
        LET r == dijkstra(Reducido(aristas), vertices, origen)
        IN  \A v \in vertices : distancias[v] = r.distancias[v]

\* A base run has returned on a graph where a neighbour of the source was
\* joined to it first by an edge of weight 1 and later by one of weight 0.
C7_Witness ==
    /\ pc = "retorno" /\ variante = "base"
    /\ \E v \in vertices \ {origen} :
         /\ PesosEntre(aristas, origen, v) = {0, 1}
         /\ \E i \in 1..Len(aristas[origen]) :
              /\ aristas[origen][i] = <<v, 1>>
              /\ \A j \in 1..(i - 1) : aristas[origen][j][1] # v
         /\ distancias[v] = 0
         /\ Len(Reducido(aristas)[origen]) < Len(aristas[origen])

\* C8: the ranking of menu_calcular holds exactly the hospitals of finite
\* distance, each once, in ascending order of distance and, for equal
\* distances, of name; the recommendation, its first element, is a reachable
\* hospital that no reachable hospital is nearer than.
C8_Ranking ==
    (pc = "fin" /\ variante = "hosp") =>
        LET H == {h \in hospitales(Red) : distancias[h] < INF}
        IN  /\ {ranking[i] : i \in 1..Len(ranking)} = {<<distancias[h], h>> : h \in H}
            /\ Len(ranking) = Cardinality(H)
            /\ \A i, j \in 1..Len(ranking) :
                 i < j => EntradaMenor(ranking[i], ranking[j])
            /\ ranking # <<>> =>
                 /\ ranking[1][2] \in H
                 /\ \A h \in H : ranking[1][1] <= distancias[h]

\* Three hospitals are ranked: the nearest has the greatest name, and the
\* other two are equally far.
C8_Witness ==
    /\ pc = "fin" /\ variante = "hosp"
    /\ Len(ranking) = 3
    /\ ranking[1][2] > ranking[2][2]
    /\ ranking[2][1] = ranking[3][1]

C10_Aciclico ==
    Terminado =>
        \A d \in Claves :
            LET c == caminar(predecesores, d, <<>>)
            IN  /\ c.fin = "ok"
                /\ Len(c.camino) <= Cardinality(Claves)
                /\ \A i, j \in 1..Len(c.camino) : i # j => c.camino[i] # c.camino[j]
                /\ Reconstruir(predecesores, origen, d).fin = "ok"

\* A run has returned with a chain of predecessors through all three
\* vertices, whose last edge weighs 0 and whose end has a self-loop of
\* weight 0.
C10_Witness ==
    /\ Terminado
    /\ \E d \in Claves :
         /\ Len(caminar(predecesores, d, <<>>).camino) = 3
         /\ 0 \in PesosEntre(Ady, d, d)
         /\ 0 \in PesosEntre(Ady, predecesores[d], d)

\* ------------------------------------------- reconstruct, on any dict
\* The labels a predecessor dict can hold: a vertex, or None.
Etiquetas == Nombres \cup {NONE}

\* Every dict from some of the vertices to a vertex or None: the dicts
\* dijkstra returns, and those it never would (a key missing, a cycle).
Predecesores == UNION {[S -> Etiquetas] : S \in SUBSET Nombres}

\* A caller holds a dict of predecessors and a source, and calls
\* reconstruir_camino or reconstruir_ruta once.
InitReconstruir ==
    /\ variante \in {"base", "hosp"}
    /\ vertices = {}
    /\ aristas = DictVacio
    /\ nodos = DictVacio
    /\ adyacencia = DictVacio
    /\ ultima = Operacion("ninguna", NONE, NONE, 0)
    /\ pc = "reconstruir"
    /\ origen \in Nombres
    /\ distancias = DictVacio
    /\ predecesores \in Predecesores
    /\ visitados = {}
    /\ cola_prioridad = <<>>
    /\ distancia_actual = 0
    /\ nodo_actual = NONE
    /\ caminos = DictVacio
    /\ ranking = <<>>
    /\ empujadas = 0

\* How a call of reconstruct ends: by its return, by an exception, or never.
FinDe(r) == IF r.fin = "ok" THEN "fin" ELSE IF r.fin = "diverge" THEN "diverge" ELSE "error"

\* reconstruir_camino(predecesores, origen, destino)
ReconstruirCamino(destino) ==
    /\ pc = "reconstruir" /\ variante = "base"
    /\ LET r == reconstruir_camino(predecesores, origen, destino)
       IN  /\ caminos' = [d \in {destino} |-> r.camino]
           /\ pc' = FinDe(r)
    /\ ultima' = Operacion("reconstruir", origen, destino, 0)
    /\ UNCHANGED <<variante, grafoVars, runVars, ranking>>

\* reconstruir_ruta(prev, origen, destino)
ReconstruirRuta(destino) ==
    /\ pc = "reconstruir" /\ variante = "hosp"
    /\ LET r == reconstruir_ruta(predecesores, origen, destino)
       IN  /\ caminos' = [d \in {destino} |-> r.camino]
           /\ pc' = FinDe(r)
    /\ ultima' = Operacion("reconstruir", origen, destino, 0)
    /\ UNCHANGED <<variante, grafoVars, runVars, ranking>>

NextReconstruir ==
    \/ \E destino \in Nombres : ReconstruirCamino(destino)
    \/ \E destino \in Nombres : ReconstruirRuta(destino)

SpecReconstruir == InitReconstruir /\ [][NextReconstruir]_vars

\* The chain of predecessors from destino, when it has an end, does not
\* begin at o; or it has no end, or leaves the dict.
NoEmpiezaEn(pred, o, destino) ==
    LET c == caminar(pred, destino, <<>>)
    IN  \/ c.fin # "ok"
        \/ c.camino = <<>>
        \/ c.camino[Len(c.camino)] # o

\* C11: reconstruct called with any dict of predecessors (of an unreachable
\* destination, with a key missing, with a cycle) whose chain from the
\* destination does not begin at the source returns the empty list: it
\* raises nothing and its loop ends.
C11_Original ==
    (ultima.op = "reconstruir" /\ NoEmpiezaEn(predecesores, origen, ultima.b)) =>
        /\ pc = "fin"
        /\ caminos[ultima.b] = <<>>

\* ------------------------------------- dijkstra from a foreign source
\* dijkstra(grafo, o) up to its while loop, for a label that is no vertex of
\* the graph: distancias[o] = 0 adds the key, predecesores gets none for it.
IniciarAjeno(o) ==
    /\ pc = "construir"
    /\ o \notin Claves
    /\ origen' = o
    /\ Asignar(inicial(Claves, o))
    /\ empujadas' = 1
    /\ pc' = "bucle"
    /\ ultima' = Operacion("dijkstra", o, o, 0)
    /\ UNCHANGED <<variante, grafoVars, caminos, ranking>>

\* The pass of the hospital variant's while loop that pops a label that is no
\* key of red.nodos: it is popped and marked, and red.nodos[u] raises KeyError.
VisitarAjeno ==
    /\ pc = "bucle" /\ variante = "hosp"
    /\ cola_prioridad # <<>>
    /\ Head(cola_prioridad)[2] \notin visitados
    /\ Head(cola_prioridad)[2] \notin DOMAIN nodos
    /\ LET p == heappop(cola_prioridad)
       IN  /\ cola_prioridad' = p.cola
           /\ distancia_actual' = p.entrada[1]
           /\ nodo_actual' = p.entrada[2]
           /\ visitados' = visitados \cup {p.entrada[2]}
    /\ pc' = "error"
    /\ UNCHANGED <<variante, grafoVars, ultima, origen, distancias, predecesores,
                   caminos, ranking, empujadas>>

\* A graph is built, and dijkstra is called on it from a foreign source.
NextAjeno ==
    \/ \E v \in Nombres : AgregarVertice(v)
    \/ \E a, b \in Nombres, w \in Pesos : AgregarArista(a, b, w)
    \/ \E n \in Nombres, l \in Lugares : AgregarLugar(n, l[1], l[2])
    \/ \E a, b \in Nombres, m \in Pesos : AgregarRuta(a, b, m)
    \/ \E o \in Nombres : IniciarAjeno(o)
    \/ Visitar
    \/ VisitarAjeno
    \/ MostrarResultados

SpecAjeno == Init /\ [][NextAjeno]_vars

\* C12: dijkstra called from a source that is no vertex of the graph ends in
\* its first pass, by an exception or by its return; what it returns gives
\* the source the distance 0 and every vertex of the graph infinity; whether
\* it raises or returns, no vertex of the graph gets a finite distance or a
\* predecessor, and the graph stays as it was.
C12_OrigenAjeno ==
    [][(origen' # NONE /\ origen' \notin Claves') =>
          /\ UNCHANGED grafoVars
          /\ pc = "bucle" => pc' \in {"retorno", "error"}
          /\ \A v \in Claves' : distancias'[v] = INF /\ predecesores'[v] = NONE
          /\ pc' \in {"retorno", "fin"} =>
                /\ distancias'[origen'] = 0
                /\ DOMAIN distancias' = Claves' \cup {origen'}
                /\ DOMAIN predecesores' = Claves']_vars

\* dijkstra has returned from a foreign source, on a graph of two vertices
\* that an edge joins, and the results were shown.
C12_Witness ==
    /\ pc = "fin" /\ variante = "base"
    /\ origen # NONE /\ origen \notin vertices
    /\ Cardinality(vertices) = 2
    /\ \E v \in vertices : aristas[v] # <<>>
    /\ \A v \in vertices : distancias[v] = INF /\ caminos[v] = <<>>

\* ------------------------------------------- dijkstra from any source
\* A graph is built and dijkstra is called on it from any label, a vertex of
\* the graph or not.
NextLibre ==
    \/ Next
    \/ \E o \in Nombres : IniciarAjeno(o)
    \/ VisitarAjeno

SpecLibre == Init /\ [][NextLibre]_vars

\* C13: the entry of dijkstra, every pass of its loop (with its call of
\* obtener_vecinos / vecinos, also for a vertex that has no list) and every
\* call of reconstruct leave the graph as it was: the vertices, every list
\* with its entries in their order, and the tipo and info of every place.
C13_GrafoIntacto ==
    [][pc' # "construir" =>
          /\ vertices' = vertices
          /\ aristas' = aristas
          /\ nodos' = nodos
          /\ adyacencia' = adyacencia]_vars

\* dijkstra has asked for the neighbours of a source that has no list, in a
\* graph that has an edge, and has returned.
C13_Witness ==
    /\ pc = "retorno" /\ variante = "base"
    /\ nodo_actual = origen
    /\ origen \notin DOMAIN aristas
    /\ \E v \in vertices : aristas[v] # <<>>

\* C14: in the pass of the loop that marks a vertex u visited, distancias[u]
\* is already the least weight of a path from the source to u and the pass
\* leaves it so; and no pass changes the distance or the predecessor of a
\* vertex that was visited before it.
C14_VisitadoFinal ==
    [][pc = "bucle" =>
          /\ \A u \in visitados' \ visitados :
                /\ distancias[u] = DistanciaMinima(Ady, Simples, origen, u)
                /\ distancias'[u] = distancias[u]
                /\ predecesores'[u] = predecesores[u]
          /\ \A u \in visitados :
                /\ distancias'[u] = distancias[u]
                /\ predecesores'[u] = predecesores[u]]_vars

\* A neighbour of the source was marked visited at a distance less than the
\* weight of the edge that joins them, and an entry is still to be popped.
C14_Witness ==
    /\ pc = "bucle"
    /\ nodo_actual \in visitados \ {origen}
    /\ Adyacentes(Ady, origen, nodo_actual)
    /\ distancias[nodo_actual] < Min(PesosEntre(Ady, origen, nodo_actual))
    /\ cola_prioridad # <<>>

\* C15: in every pass of the loop the distance of every vertex stays or
\* gets strictly less, and the predecessor of a vertex changes only in a
\* pass that makes its distance strictly less; so that, from the entry of
\* dijkstra on, every vertex but the source has a predecessor exactly when
\* its distance is finite.
C15_Monotonia ==
    [][/\ pc = "bucle" =>
            \A v \in DOMAIN distancias :
               /\ distancias'[v] <= distancias[v]
               /\ predecesores'[v] # predecesores[v] => distancias'[v] < distancias[v]
       /\ pc' # "construir" =>
            \A v \in Claves' \ {origen'} :
               predecesores'[v] # NONE <=> distancias'[v] < INF]_vars

\* A vertex not yet visited has had its distance lowered twice: the edge
\* from the source had given it more than it has now, and its predecessor is
\* a third vertex.
C15_Witness ==
    /\ pc = "bucle"
    /\ \E v \in Claves \ visitados :
         /\ Adyacentes(Ady, origen, v)
         /\ \A i \in 1..Len(Ady[origen]) :
               Ady[origen][i][1] = v => distancias[v] < Ady[origen][i][2]
         /\ predecesores[v] \notin {NONE, origen, v}

\* ------------------------------------------------------- the loop ends
\* A graph is built, its places added as agregar_lugar(nombre) adds them by
\* default, and dijkstra is run on it.
NextBucle ==
    \/ \E v \in Nombres : AgregarVertice(v)
    \/ \E a, b \in Nombres, w \in Pesos : AgregarArista(a, b, w)
    \/ \E n \in Nombres : AgregarLugar(n, "colonia", "")
    \/ \E a, b \in Nombres, m \in Pesos : AgregarRuta(a, b, m)
    \/ \E o \in Nombres : Iniciar(o)
    \/ Visitar
    \/ Descartar
    \/ MostrarResultados
    \/ MenuCalcular

\* The while loop is sequential code: a pass that can be taken is taken.
SpecBucle ==
    Init /\ [][NextBucle]_vars /\ WF_vars(Visitar) /\ WF_vars(Descartar)

\* C16: the while loop ends, and ends with its heap empty; a pass marks the
\* vertex it pops when that vertex was not marked before, and marks no
\* other; a pass that pops a vertex already marked only drops the entry and
\* changes no distance, no predecessor and no mark; and the entries the run
\* has put in the heap, the first included, are never more than 1 plus the
\* entries of all the adjacency lists.
C16_Terminacion ==
    /\ [][/\ pc = "bucle" =>
               /\ cola_prioridad # <<>>
               /\ pc' \in {"bucle", "retorno"}
               /\ pc' = "retorno" <=> cola_prioridad' = <<>>
               /\ Head(cola_prioridad)[2] \in visitados =>
                     /\ cola_prioridad' = Tail(cola_prioridad)
                     /\ UNCHANGED <<distancias, predecesores, visitados>>
               /\ Head(cola_prioridad)[2] \notin visitados =>
                     visitados' = visitados \cup {Head(cola_prioridad)[2]}
          /\ empujadas' <= 1 + Entradas(Ady')]_vars
    /\ (pc = "bucle") ~> (pc = "retorno" /\ cola_prioridad = <<>>)

\* The loop has ended after a pass that dropped an entry: more entries were
\* put in the heap than vertices were visited.
C16_Witness ==
    /\ pc = "retorno"
    /\ cola_prioridad = <<>>
    /\ empujadas > Cardinality(visitados)
    /\ Cardinality(visitados) = 3

\* C17: a pass that pops (p, u) with u not yet visited pops the distance u
\* has, p = distancias[u], so that the pass leaves what the relaxations
\* computed from distancias[u] + peso leave; and it marks u no nearer than
\* any vertex marked before it, each by the distance it keeps to the end.
C17_PrioridadActual ==
    [][(pc = "bucle" /\ Head(cola_prioridad)[2] \notin visitados) =>
          LET p == Head(cola_prioridad)[1]
              u == Head(cola_prioridad)[2]
              st1 == [Estado EXCEPT !.cola = Tail(cola_prioridad),
                                    !.distancia_actual = distancias[u],
                                    !.nodo_actual = u,
                                    !.visitados = @ \cup {u}]
              r == explorar(st1, obtener_vecinos(Ady, u), 1, u, distancias[u])
          IN  /\ p = distancias[u]
              /\ distancia_actual' = distancias[u]
              /\ distancias' = r.distancias
              /\ predecesores' = r.predecesores
              /\ cola_prioridad' = r.cola
              /\ \A v \in visitados : distancias'[v] <= distancias'[u]]_vars

\* A vertex was popped and marked at the distance it has, while an older
\* entry of it, with a greater distance, is still in the heap.
C17_Witness ==
    /\ pc = "bucle"
    /\ nodo_actual \in visitados
    /\ distancia_actual = distancias[nodo_actual]
    /\ \E i \in 1..Len(cola_prioridad) :
          /\ cola_prioridad[i][2] = nodo_actual
          /\ cola_prioridad[i][1] > distancia_actual
    /\ \E v \in visitados : distancias[v] < distancia_actual

\* C18: in the hospital variant no call changes the tipo or the info of a
\* place that is already there; agregar_lugar for a name already there
\* changes nothing of the places and nothing of the lists; a place that
\* agregar_ruta creates is a 'colonia' with no info, and is none of
\* hospitales(); which places hospitales() holds, of those already there, no
\* call changes; and only places of hospitales() are ranked.
C18_TipoFijo ==
    [][variante = "hosp" =>
          /\ \A n \in DOMAIN nodos : n \in DOMAIN nodos' /\ nodos'[n] = nodos[n]
          /\ (ultima'.op = "agregar_lugar" /\ ultima'.a \in DOMAIN nodos) =>
                nodos' = nodos /\ adyacencia' = adyacencia
          /\ ultima'.op = "agregar_ruta" =>
                \A n \in DOMAIN nodos' \ DOMAIN nodos :
                   /\ nodos'[n] = [tipo |-> "colonia", info |-> ""]
                   /\ n \notin hospitales(Red')
          /\ \A n \in DOMAIN nodos : n \in hospitales(Red') <=> n \in hospitales(Red)
          /\ \A i \in 1..Len(ranking') : ranking'[i][2] \in hospitales(Red')]_vars

\* agregar_lugar was called for a place that has a route, so was there
\* before the call, and is a 'colonia'; another place is a hospital.
C18_Witness ==
    /\ variante = "hosp" /\ pc = "construir"
    /\ ultima.op = "agregar_lugar"
    /\ nodos[ultima.a].tipo = "colonia"
    /\ adyacencia[ultima.a] # <<>>
    /\ hospitales(Red) # {}

====
